---- MODULE Spec2Model ----
(***************************************************************************)
(* Druckerpreisrechner (main.py): the SQLite tables printers and           *)
(* consumables, the cost model compute_costs_for_printer and the           *)
(* comparison handler App.run_compare.                                     *)
(*                                                                         *)
(* Numbers.  The program computes with Python floats.  The model computes  *)
(* with exact rationals <<n, d>> (d > 0, lowest terms), so that equalities *)
(* and orderings are those of the formulas the code evaluates; float       *)
(* rounding is outside the model.                                          *)
(*                                                                         *)
(* Optional values.  Python's None is the empty tuple <<>>; a fetched row  *)
(* is the tuple sqlite3 returns.                                           *)
(***************************************************************************)
EXTENDS Integers, Sequences, FiniteSets, TLC

VARIABLES
    printers,           \* table printers: set of <<id, model, price, is_color>>
    consumables,        \* table consumables: set of <<id, printer_id, kleur, price, reach>>
    next_pid,           \* AUTOINCREMENT counter of printers
    next_cid,           \* AUTOINCREMENT counter of consumables
    tree_printers,      \* per app: ids shown in the printer tree, in order
    printer_map,        \* per app: set of <<model, id>> (self.printer_map)
    listbox_compare,    \* per app: model names shown in the compare listbox
    sel_idxs,           \* per app: selected indexes of listbox_compare
    cb_printer_for_mat, \* per app: text of the material tab's printer combobox
    tree_mat,           \* per app: consumable ids shown in the material tree
    e_cov,              \* per app: <<e_cov_sw, e_cov_color, e_color_share>> entry texts
    tree_compare,       \* per app: displayed comparison table
    last_compare_rows,  \* per app: self._last_compare_rows (<<>> while unset)
    outcome,            \* the last handler run: app, op, dialog shown, exception
    profiles,           \* table profiles: set of <<id, name, cov_sw, cov_color, color_share>>
    asked,              \* the text last entered in a simpledialog.askstring
    events              \* handlers run so far in the session

vars == <<printers, consumables, next_pid, next_cid, tree_printers, printer_map,
          listbox_compare, sel_idxs, cb_printer_for_mat, tree_mat, e_cov,
          tree_compare, last_compare_rows, outcome, profiles, asked, events>>

dbvars == <<printers, consumables, next_pid, next_cid>>

None == <<>>

(***************************************************************************)
(* Exact rational arithmetic                                               *)
(***************************************************************************)
Abs(x) == IF x < 0 THEN -x ELSE x

RECURSIVE GCD(_, _)
GCD(a, b) == IF b = 0 THEN a ELSE GCD(b, a % b)

Q(n, d) ==
    LET g == GCD(Abs(n), d)
    IN  IF n = 0 THEN <<0, 1>> ELSE <<n \div g, d \div g>>

RAdd(x, y) == Q(x[1] * y[2] + y[1] * x[2], x[2] * y[2])
RSub(x, y) == Q(x[1] * y[2] - y[1] * x[2], x[2] * y[2])
RMul(x, y) == Q(x[1] * y[1], x[2] * y[2])
RDiv(x, y) == IF y[1] > 0 THEN Q(x[1] * y[2], x[2] * y[1])
                          ELSE Q(-(x[1] * y[2]), x[2] * (-y[1]))
RLess(x, y) == x[1] * y[2] < y[1] * x[2]
RLeq(x, y) == x[1] * y[2] <= y[1] * x[2]
RInt(k) == <<k, 1>>
\* Python int(x) of a float: truncation towards zero
Trunc(x) == IF x[1] >= 0 THEN x[1] \div x[2] ELSE -((-x[1]) \div x[2])
Max(a, b) == IF a >= b THEN a ELSE b

(***************************************************************************)
(* Bounds and input sets                                                   *)
(***************************************************************************)
Apps == {1, 2}                           \* running instances of main()
ModelNames == <<"A", "B", "C">>          \* model names, in ORDER BY model order
Channels == <<"Schwarz", "Cyan", "Magenta", "Yellow">>
CovTexts == <<"5", "10", "2,5">>         \* texts typed into a coverage entry
MaxCovStep == 2
Covs == {CovTexts[i] : i \in 1..MaxCovStep}
Shares == {"50", "100"}
PriceTexts == {"50", "150"}
MaxId == 2                               \* printers ever inserted
MaxConsId == 4                           \* consumables ever inserted
TypedModels == {"", "A", "B"}            \* texts typed into the model entry
TypedPrices == {"50", "x"}               \* texts typed into a price entry
MaxEvents == 4                           \* handlers run in one session
TypedMaterial == {<<"40", "1000">>, <<"30", "2000">>, <<"40", "x">>}
TypedEntries == {<<"5", "5", "50">>, <<"5", "x", "50">>}
NoSelection == 0                         \* nothing selected in a tree

(***************************************************************************)
(* Helpers (to_float, to_int) and database reads                           *)
(***************************************************************************)
\* float("nan"): not a number
NaN == <<0, 0>>

\* float(str(val).strip().replace(',', '.')) on the texts the model types
\* into entries: the number, or None where float() raises ValueError.
ParseFloat(val) ==
    CASE val = "0" -> <<0, 1>>
      [] val = "1" -> <<1, 1>>
      [] val = "5" -> <<5, 1>>
      [] val = "10" -> <<10, 1>>
      [] val = "2,5" -> <<5, 2>>
      [] val = "30" -> <<30, 1>>
      [] val = "40" -> <<40, 1>>
      [] val = "50" -> <<50, 1>>
      [] val = "100" -> <<100, 1>>
      [] val = "150" -> <<150, 1>>
      [] val = "1000" -> <<1000, 1>>
      [] val = "2000" -> <<2000, 1>>
      [] val = "3000" -> <<3000, 1>>
      [] val = "5.0" -> <<5, 1>>
      [] val = "10.0" -> <<10, 1>>
      [] val = "2.5" -> <<5, 2>>
      [] val = "50.0" -> <<50, 1>>
      [] val = "100.0" -> <<100, 1>>
      [] val = "nan" -> NaN
      [] val = "-5" -> <<-5, 1>>
      [] OTHER -> None

to_float(val, default) == IF ParseFloat(val) = None THEN default ELSE ParseFloat(val)

\* int(float(text)) of a text that parses
ParseInt(val) == Trunc(ParseFloat(val))

\* SELECT id,model,price,is_color FROM printers ORDER BY model, on the
\* printers table P
list_printers_db(P) ==
    LET stored(m) == \E r \in P : r[2] = m
        names == SelectSeq(ModelNames, stored)
    IN  [i \in 1..Len(names) |-> CHOOSE r \in P : r[2] = names[i]]

\* SELECT ... FROM printers WHERE id=?  (fetchone), on the printers table P
get_printer_db(P, pid) ==
    IF \E r \in P : r[1] = pid
    THEN CHOOSE r \in P : r[1] = pid
    ELSE None

\* SELECT price,reach FROM consumables WHERE printer_id=? AND kleur=?
\* (fetchone), on the consumables table C
get_consumable_db(C, printer_id, kleur) ==
    IF \E c \in C : c[2] = printer_id /\ c[3] = kleur
    THEN LET c == CHOOSE c \in C : c[2] = printer_id /\ c[3] = kleur
         IN  <<c[4], c[5]>>
    ELSE None

\* list_consumables_db(printer_id) on the table C: the ids of the rows
\* listed.  A falsy printer_id (None) lists every consumable.
list_consumables_db(C, pid) ==
    IF pid = None THEN {c[1] : c \in C}
    ELSE {c[1] : c \in {x \in C : x[2] = pid[1]}}

(***************************************************************************)
(* Calc logic                                                              *)
(***************************************************************************)
\* Mutant of FirstRecorded: the last recorded channel
LastRecorded(c_col, m_col, y_col) ==
    IF y_col # None THEN y_col
    ELSE IF m_col # None THEN m_col
    ELSE c_col

\* for x in (c_col, m_col, y_col): if x: base = x; break
FirstRecorded(c_col, m_col, y_col) ==
    IF c_col # None THEN c_col
    ELSE IF m_col # None THEN m_col
    ELSE y_col

\* Mutant of CostPer5: the magnitude of the yield
CostPer5Magnitude(raw) == RDiv(raw[1], RInt(Max(1, Abs(raw[2]))))

\* float(price) / max(1, int(reach)) of a fetched <<price, reach>>
CostPer5(raw) == RDiv(raw[1], RInt(Max(1, raw[2])))

\* prices[name] / reaches[name] of one colour channel (lines 158-162, 166)
ChannelCostPer5(raw, base) ==
    IF raw # None THEN CostPer5(raw) ELSE CostPer5(base)

\* Mutant of ColorPageCost: the colour components alone, without Schwarz
ColorComponentsOnly(cost_black_per_5, c_col, m_col, y_col, base, cov_color_pct) ==
    LET f == RDiv(cov_color_pct, RInt(5))
    IN  RAdd(RAdd(RMul(IF c_col # None THEN CostPer5(c_col) ELSE CostPer5(base), f),
                  RMul(IF m_col # None THEN CostPer5(m_col) ELSE CostPer5(base), f)),
             RMul(IF y_col # None THEN CostPer5(y_col) ELSE CostPer5(base), f))

\* cost_black_at_color + color_components (lines 163-168)
ColorPageCost(cost_black_per_5, c_col, m_col, y_col, base, cov_color_pct) ==
    LET f == RDiv(cov_color_pct, RInt(5))
        cost_black_at_color == RMul(cost_black_per_5, f)
        cyan == RMul(ChannelCostPer5(c_col, base), f)
        magenta == RMul(ChannelCostPer5(m_col, base), f)
        yellow == RMul(ChannelCostPer5(y_col, base), f)
    IN  RAdd(cost_black_at_color, RAdd(RAdd(cyan, magenta), yellow))

\* Mutant of CostsWithBlack: no monochrome cost either without colour records
CostsNothingWithoutColor(is_color, black, c_col, m_col, y_col, cov_sw_pct, cov_color_pct) ==
    LET sw == RMul(CostPer5(black), RDiv(cov_sw_pct, RInt(5)))
        base == IF c_col # None THEN c_col ELSE IF m_col # None THEN m_col ELSE y_col
        f == RDiv(cov_color_pct, RInt(5))
        col(raw) == RMul(CostPer5(IF raw # None THEN raw ELSE base), f)
    IN  IF is_color # 0
        THEN IF base = None
             THEN <<None, None, "Keine Farbverbrauchsmaterialien eingetragen">>
             ELSE <<sw, RAdd(RMul(CostPer5(black), f),
                             RAdd(RAdd(col(c_col), col(m_col)), col(y_col))), "ok">>
        ELSE <<sw, sw, "ok">>

\* Mutant of CostsWithBlack: the colour records count whatever is_color says
CostsIgnoringIsColor(is_color, black, c_col, m_col, y_col, cov_sw_pct, cov_color_pct) ==
    LET sw == RMul(CostPer5(black), RDiv(cov_sw_pct, RInt(5)))
        base == IF c_col # None THEN c_col ELSE IF m_col # None THEN m_col ELSE y_col
        f == RDiv(cov_color_pct, RInt(5))
        col(raw) == RMul(CostPer5(IF raw # None THEN raw ELSE base), f)
    IN  IF base = None
        THEN IF is_color # 0
             THEN <<sw, None, "Keine Farbverbrauchsmaterialien eingetragen">>
             ELSE <<sw, sw, "ok">>
        ELSE <<sw, RAdd(RMul(CostPer5(black), f),
                        RAdd(RAdd(col(c_col), col(m_col)), col(y_col))), "ok">>

\* The branch `if is_color:` ... `else:` of lines 145-171, once Black is
\* known to be recorded: <<sw_page_cost, color_page_cost, info>>
CostsWithBlack(is_color, black, c_col, m_col, y_col, cov_sw_pct, cov_color_pct) ==
    LET cost_black_per_5 == CostPer5(black)
        sw_page_cost == RMul(cost_black_per_5, RDiv(cov_sw_pct, RInt(5)))
        base == FirstRecorded(c_col, m_col, y_col)
    IN  IF is_color # 0
        THEN IF base = None
             THEN <<sw_page_cost, None, "Keine Farbverbrauchsmaterialien eingetragen">>
             ELSE <<sw_page_cost,
                    ColorPageCost(cost_black_per_5, c_col, m_col, y_col, base,
                                  cov_color_pct),
                    "ok">>
        ELSE <<sw_page_cost, sw_page_cost, "ok">>

\* Mutant of compute_costs_for_printer: a missing Schwarz record counts as
\* a free one (no cost instead of no result)
compute_costs_black_optional(P, C, printer_id, cov_sw_pct, cov_color_pct) ==
    LET p == get_printer_db(P, printer_id)
        black == get_consumable_db(C, printer_id, "Schwarz")
    IN
    IF p = None THEN <<None, None, "Drucker nicht gefunden">>
    ELSE CostsWithBlack(p[4], IF black = None THEN <<RInt(0), 1>> ELSE black,
                        get_consumable_db(C, printer_id, "Cyan"),
                        get_consumable_db(C, printer_id, "Magenta"),
                        get_consumable_db(C, printer_id, "Yellow"),
                        cov_sw_pct, cov_color_pct)

\* The result is <<sw_page_cost, color_page_cost, info>>; info is the error
\* text, or "ok" for the {"model", "is_color"} dictionary.  P and C are the
\* tables the function reads.
compute_costs_for_printer(P, C, printer_id, cov_sw_pct, cov_color_pct) ==
    LET p == get_printer_db(P, printer_id)
        black == get_consumable_db(C, printer_id, "Schwarz")
    IN
    IF p = None THEN <<None, None, "Drucker nicht gefunden">>
    ELSE IF black = None
    THEN <<None, None, "Kein schwarzes Verbrauchsmaterial eingetragen">>
    ELSE CostsWithBlack(p[4], black,
                        get_consumable_db(C, printer_id, "Cyan"),
                        get_consumable_db(C, printer_id, "Magenta"),
                        get_consumable_db(C, printer_id, "Yellow"),
                        cov_sw_pct, cov_color_pct)

(***************************************************************************)
(* App.run_compare, the computation                                        *)
(***************************************************************************)
\* avg_cost of one row (lines 467-469)
AvgCost(sw_cost, color_cost, color_share) ==
    IF sw_cost # None /\ color_cost # None
    THEN LET share == RDiv(color_share, RInt(100))
         IN  RAdd(RMul(share, color_cost), RMul(RSub(RInt(1), share), sw_cost))
    ELSE None

\* One appended row, before break_even is set: <<id, model, price, sw_cost,
\* color_cost, avg_cost>>
CostRow(P, C, pid, cov_sw, cov_color, color_share) ==
    LET p == get_printer_db(P, pid)
        c == compute_costs_for_printer(P, C, pid, cov_sw, cov_color)
    IN  <<pid, p[2], p[3], c[1], c[2], AvgCost(c[1], c[2], color_share)>>

\* selected_ids = [model_to_id[m] for m in selected_models if m in model_to_id]
SelectedIds(P, selected_models) ==
    LET known(m) == \E r \in P : r[2] = m
        ms == SelectSeq(selected_models, known)
    IN  [i \in 1..Len(ms) |-> (CHOOSE r \in P : r[2] = ms[i])[1]]

\* Mutant of CostRows: the rows in reverse order
RECURSIVE CostRowsReversed(_, _, _, _, _, _)
CostRowsReversed(P, C, selected_ids, cov_sw, cov_color, color_share) ==
    IF selected_ids = <<>> THEN <<>>
    ELSE CostRowsReversed(P, C, Tail(selected_ids), cov_sw, cov_color, color_share)
         \o <<CostRow(P, C, Head(selected_ids), cov_sw, cov_color, color_share)>>

\* The loop of lines 462-470; `if not p: continue` drops ids without a row.
RECURSIVE CostRows(_, _, _, _, _, _)
CostRows(P, C, selected_ids, cov_sw, cov_color, color_share) ==
    IF selected_ids = <<>> THEN <<>>
    ELSE LET pid == Head(selected_ids)
             rest == CostRows(P, C, Tail(selected_ids), cov_sw, cov_color, color_share)
         IN  IF get_printer_db(P, pid) = None THEN rest
             ELSE <<CostRow(P, C, pid, cov_sw, cov_color, color_share)>> \o rest

\* Mutant of BaselineIndex: the last row of minimal price
BaselineIndexLast(rows) ==
    CHOOSE i \in 1..Len(rows) :
        /\ \A j \in 1..Len(rows) : RLeq(rows[i][3], rows[j][3])
        /\ \A j \in (i + 1)..Len(rows) : RLess(rows[i][3], rows[j][3])

\* min(rows, key=lambda r: r["price"]): the first row of minimal price.
\* Only evaluated on a non-empty list.
BaselineIndex(rows) ==
    CHOOSE i \in 1..Len(rows) :
        /\ \A j \in 1..Len(rows) : RLeq(rows[i][3], rows[j][3])
        /\ \A j \in 1..(i - 1) : RLess(rows[i][3], rows[j][3])

\* Mutant of Pages: the quotient rounded down, without the + 1
PagesFloorOnly(price, baseline_price, denom) ==
    Trunc(RDiv(RSub(price, baseline_price), denom))

\* pages = int((r["price"] - baseline_price) / denom) + 1
Pages(price, baseline_price, denom) ==
    Trunc(RDiv(RSub(price, baseline_price), denom)) + 1

\* Mutant of BreakEven: an equally dear row gets a number too (>= for >)
BreakEvenNotCheaper(r, baseline) ==
    IF r[1] = baseline[1] THEN None
    ELSE IF r[6] = None \/ baseline[6] = None THEN None
    ELSE IF RLeq(baseline[3], r[3]) /\ RLess(r[6], baseline[6])
         THEN <<Trunc(RDiv(RSub(r[3], baseline[3]), RSub(baseline[6], r[6]))) + 1>>
         ELSE None

\* The break_even of row r (lines 474-490): <<>> is the text "-", <<n>> is
\* str(n), the decimal digits of n.
BreakEven(r, baseline) ==
    LET baseline_price == baseline[3]
        baseline_avg == baseline[6]
    IN
    IF r[1] = baseline[1] THEN None
    ELSE IF r[6] = None \/ baseline_avg = None THEN None
    ELSE IF RLess(baseline_price, r[3]) /\ RLess(r[6], baseline_avg)
         THEN LET denom == RSub(baseline_avg, r[6])
              IN  IF RLeq(denom, RInt(0)) THEN None
                  ELSE <<Pages(r[3], baseline_price, denom)>>
         ELSE None

\* rows with r["break_even"] set: <<id, model, price, sw_cost, color_cost,
\* avg_cost, break_even>>
WithBreakEven(rows) ==
    LET baseline == rows[BaselineIndex(rows)]
    IN  [i \in 1..Len(rows) |-> Append(rows[i], BreakEven(rows[i], baseline))]

\* The rows run_compare builds (lines 454-490) from the tables, the selected
\* model names and the three parsed numbers; <<>> when nothing resolves.
CompareRows(P, C, selected_models, cov_sw, cov_color, color_share) ==
    LET rows == CostRows(P, C, SelectedIds(P, selected_models),
                         cov_sw, cov_color, color_share)
    IN  IF rows = <<>> THEN <<>> ELSE WithBreakEven(rows)

\* f"{x:.2f}" / f"{x:.4f}": x rounded to a multiple of 1/scale (scale = 100 or
\* 10000), given as that multiple; exact ties round to even.
Fmt(x, scale) ==
    LET n == x[1] * scale
        q == n \div x[2]
        r == n % x[2]
    IN  IF 2 * r < x[2] THEN q
        ELSE IF 2 * r > x[2] THEN q + 1
        ELSE IF q % 2 = 0 THEN q ELSE q + 1

\* The values of one inserted table line (lines 493-495); "n/a" is <<>>.
DisplayCols(r) ==
    <<r[2], Fmt(r[3], 100),
      IF r[4] # None THEN <<Fmt(r[4], 10000)>> ELSE None,
      IF r[5] # None THEN <<Fmt(r[5], 10000)>> ELSE None,
      IF r[6] # None THEN <<Fmt(r[6], 10000)>> ELSE None,
      r[7]>>

(***************************************************************************)
(* The interface: refreshes                                                *)
(***************************************************************************)
\* What a handler leaves behind: the dialog it showed ("" for none) and
\* whether it ended in an uncaught exception (Tk reports it and goes on).
Outcome(a, op, msg, raised) == [app |-> a, op |-> op, msg |-> msg, raised |-> raised]

SeqToSet(s) == {s[i] : i \in 1..Len(s)}

\* self.printer_map.get(name): <<id>>, or None
MapGet(map, name) ==
    IF \E e \in map : e[1] = name
    THEN <<(CHOOSE e \in map : e[1] = name)[2]>>
    ELSE None

\* The combobox text after refresh_printer_comboboxes (lines 305-307)
RefreshedCombo(cb, models) ==
    IF Len(models) > 0 /\ cb = "" THEN models[1] ELSE cb

\* What refresh_material_tree shows, from the table C, printer_map and the
\* combobox text
MaterialTree(C, map, cb) ==
    list_consumables_db(C, IF cb = "" THEN None ELSE MapGet(map, cb))

\* refresh_printers for app a, reading the new tables (the search entry is
\* left empty): the printer tree, printer_map, the combobox, the compare
\* listbox (whose selection is lost) and the material tree.
RefreshPrinters(a) ==
    LET rows == list_printers_db(printers')
        models == [i \in 1..Len(rows) |-> rows[i][2]]
        map == {<<rows[i][2], rows[i][1]>> : i \in 1..Len(rows)}
        cb == RefreshedCombo(cb_printer_for_mat[a], models)
    IN  /\ tree_printers' = [tree_printers EXCEPT ![a] =
                                [i \in 1..Len(rows) |-> rows[i][1]]]
        /\ printer_map' = [printer_map EXCEPT ![a] = map]
        /\ cb_printer_for_mat' = [cb_printer_for_mat EXCEPT ![a] = cb]
        /\ listbox_compare' = [listbox_compare EXCEPT ![a] = models]
        /\ sel_idxs' = [sel_idxs EXCEPT ![a] = {}]
        /\ tree_mat' = [tree_mat EXCEPT ![a] = MaterialTree(consumables', map, cb)]

(***************************************************************************)
(* App.run_compare                                                         *)
(***************************************************************************)
\* [self.listbox_compare.get(i) for i in sel_idxs], in index order
SelectedModels(listbox, sel) ==
    LET picked(i) == i \in sel
        idx == SelectSeq([i \in 1..Len(listbox) |-> i], picked)
    IN  [k \in 1..Len(idx) |-> listbox[idx[k]]]

\* The user selects the lines sel of the listbox, leaves the texts e in the
\* three entries and presses "Vergleichen".
RunCompare(a, sel, e) ==
    LET cov_sw == to_float(e[1], None)
        cov_color == to_float(e[2], None)
        color_share == to_float(e[3], None)
        selected_models == SelectedModels(listbox_compare[a], sel)
    IN  /\ sel \subseteq 1..Len(listbox_compare[a])
        /\ sel_idxs' = [sel_idxs EXCEPT ![a] = sel]
        /\ e_cov' = [e_cov EXCEPT ![a] = e]
        /\ IF sel = {}
           THEN /\ outcome' = Outcome(a, "run_compare", "Keine Drucker gewählt", FALSE)
                /\ UNCHANGED <<tree_compare, last_compare_rows>>
           ELSE IF cov_sw = None \/ cov_color = None \/ color_share = None
           THEN /\ outcome' = Outcome(a, "run_compare", "Ungültige Deckungsangaben", FALSE)
                /\ UNCHANGED <<tree_compare, last_compare_rows>>
           ELSE IF SelectedIds(printers, selected_models) = <<>>
           THEN \* rows is empty, min() raises ValueError at line 471
                /\ outcome' = Outcome(a, "run_compare", "", TRUE)
                /\ UNCHANGED <<tree_compare, last_compare_rows>>
           ELSE /\ outcome' = Outcome(a, "run_compare", "", FALSE)
                /\ last_compare_rows' = [last_compare_rows EXCEPT ![a] =
                       CompareRows(printers, consumables, selected_models,
                                   cov_sw, cov_color, color_share)]
                /\ tree_compare' = [tree_compare EXCEPT ![a] =
                       [i \in 1..Len(last_compare_rows'[a]) |->
                           DisplayCols(last_compare_rows'[a][i])]]
        /\ UNCHANGED <<dbvars, tree_printers, printer_map, listbox_compare,
                       cb_printer_for_mat, tree_mat, profiles, asked>>

(***************************************************************************)
(* Database writes                                                         *)
(***************************************************************************)
\* Mutant of add_consumable_db: a plain INSERT that keeps the old row
add_consumable_keeping(C, cid, printer_id, kleur, price, reach) ==
    C \cup {<<cid, printer_id, kleur, price, reach>>}

\* INSERT OR REPLACE INTO consumables ...: the table C after the insert that
\* gets the id cid; a row of the same (printer_id, kleur) is replaced.
add_consumable_db(C, cid, printer_id, kleur, price, reach) ==
    {c \in C : ~(c[2] = printer_id /\ c[3] = kleur)}
        \cup {<<cid, printer_id, kleur, price, reach>>}

\* DELETE FROM consumables WHERE id=?
delete_consumable_db(C, cid) == {c \in C : c[1] # cid}

\* delete_printer_db: the two tables after the two DELETEs
DeletePrinterConsumables(C, pid) == {c \in C : c[2] # pid}
DeletePrinterRow(P, pid) == {r \in P : r[1] # pid}

(***************************************************************************)
(* The interface: handlers of the printer tab                              *)
(***************************************************************************)
UiUnchanged == UNCHANGED <<tree_printers, printer_map, listbox_compare, sel_idxs,
                           cb_printer_for_mat, tree_mat>>
CompareUnchanged == UNCHANGED <<e_cov, tree_compare, last_compare_rows, profiles, asked>>

\* The handler ends after the dialog msg, having changed nothing.
Reported(a, op, msg) ==
    /\ outcome' = Outcome(a, op, msg, FALSE)
    /\ UNCHANGED dbvars
    /\ UiUnchanged
    /\ CompareUnchanged

\* The handler ends in an uncaught exception, having changed nothing.
Raised(a, op) ==
    /\ outcome' = Outcome(a, op, "", TRUE)
    /\ UNCHANGED dbvars
    /\ UiUnchanged
    /\ CompareUnchanged

\* add_printer with the texts model and price typed and the checkbox is_color
AddPrinter(a, model, price, is_color) ==
    /\ next_pid <= MaxId
    /\ IF model = "" THEN Reported(a, "add_printer", "Modell darf nicht leer sein")
       ELSE IF ParseFloat(price) = None
       THEN Reported(a, "add_printer", "Ungültiger Preis")
       ELSE /\ IF \E r \in printers : r[2] = model
               THEN \* UNIQUE(model): sqlite3.IntegrityError, caught at line 231
                    /\ outcome' = Outcome(a, "add_printer",
                                          "Konnte Drucker nicht anlegen", FALSE)
                    /\ UNCHANGED <<printers, next_pid>>
               ELSE /\ outcome' = Outcome(a, "add_printer", "", FALSE)
                    /\ printers' = printers \cup
                           {<<next_pid, model, ParseFloat(price), is_color>>}
                    /\ next_pid' = next_pid + 1
            /\ UNCHANGED <<consumables, next_cid>>
            /\ RefreshPrinters(a)
            /\ CompareUnchanged

\* update_selected_printer with the line pid of the printer tree selected
UpdatePrinter(a, pid, model, price, is_color) ==
    /\ pid \in SeqToSet(tree_printers[a]) \cup {NoSelection}
    /\ IF pid = NoSelection
       THEN Reported(a, "update_selected_printer", "Kein Drucker ausgewählt")
       ELSE IF ParseFloat(price) = None
       THEN Reported(a, "update_selected_printer", "Ungültiger Preis")
       ELSE IF model = ""
       THEN Reported(a, "update_selected_printer", "Ungültige Eingaben")
       ELSE IF /\ \E r \in printers : r[1] = pid
               /\ \E r \in printers : r[1] # pid /\ r[2] = model
       THEN \* UNIQUE(model): sqlite3.IntegrityError, not caught
            Raised(a, "update_selected_printer")
       ELSE /\ outcome' = Outcome(a, "update_selected_printer", "", FALSE)
            /\ printers' = {IF r[1] = pid
                            THEN <<pid, model, ParseFloat(price), is_color>>
                            ELSE r : r \in printers}
            /\ UNCHANGED <<consumables, next_pid, next_cid>>
            /\ RefreshPrinters(a)
            /\ CompareUnchanged

\* delete_selected_printer with the line pid selected and the answer yes
DeletePrinter(a, pid, yes) ==
    /\ pid \in SeqToSet(tree_printers[a]) \cup {NoSelection}
    /\ IF pid = NoSelection
       THEN Reported(a, "delete_selected_printer", "Kein Drucker ausgewählt")
       ELSE IF ~yes
       THEN Reported(a, "delete_selected_printer", "Löschen?")
       ELSE /\ outcome' = Outcome(a, "delete_selected_printer", "", FALSE)
            /\ consumables' = DeletePrinterConsumables(consumables, pid)
            /\ printers' = DeletePrinterRow(printers, pid)
            /\ UNCHANGED <<next_pid, next_cid>>
            /\ RefreshPrinters(a)
            /\ CompareUnchanged

\* The button "Aktualisieren": refresh_printers
Refresh(a) ==
    /\ outcome' = Outcome(a, "refresh_printers", "", FALSE)
    /\ UNCHANGED dbvars
    /\ RefreshPrinters(a)
    /\ CompareUnchanged

(***************************************************************************)
(* The interface: handlers of the material tab                             *)
(***************************************************************************)
\* The texts the readonly combobox can hold: the one it holds, or one of
\* the values it was given at the last refresh.
ComboChoices(a) == SeqToSet(listbox_compare[a]) \cup {cb_printer_for_mat[a]}

\* The end of add_consumable_ui and autofill_from_cyan: the tables are
\* written, then refresh_material_tree.
MaterialWritten(a, name, C, inserted) ==
    /\ consumables' = C
    /\ next_cid' = next_cid + inserted
    /\ UNCHANGED <<printers, next_pid>>
    /\ cb_printer_for_mat' = [cb_printer_for_mat EXCEPT ![a] = name]
    /\ tree_mat' = [tree_mat EXCEPT ![a] = MaterialTree(C, printer_map[a], name)]
    /\ UNCHANGED <<tree_printers, printer_map, listbox_compare, sel_idxs>>
    /\ CompareUnchanged

\* The handler ends after the dialog msg; only the combobox text is new.
MaterialReported(a, op, name, msg, raised) ==
    /\ outcome' = Outcome(a, op, msg, raised)
    /\ cb_printer_for_mat' = [cb_printer_for_mat EXCEPT ![a] = name]
    /\ UNCHANGED dbvars
    /\ UNCHANGED <<tree_printers, printer_map, listbox_compare, sel_idxs, tree_mat>>
    /\ CompareUnchanged

\* add_consumable_ui with printer name and kleur chosen, the texts mat typed
\* (price, reach) and the answer yes to the Cyan question
AddConsumable(a, name, kleur, mat, yes) ==
    LET pid == MapGet(printer_map[a], name)
        price == ParseFloat(mat[1])
        reach == ParseInt(mat[2])
        p == get_printer_db(printers, pid[1])
        one == add_consumable_db(consumables, next_cid, pid[1], kleur, price, reach)
        two == add_consumable_db(one, next_cid + 1, pid[1], "Magenta", price, reach)
        three == add_consumable_db(two, next_cid + 2, pid[1], "Yellow", price, reach)
    IN
    /\ name \in ComboChoices(a)
    /\ next_cid + (IF kleur = "Cyan" /\ yes THEN 2 ELSE 0) <= MaxConsId
    /\ IF name = ""
       THEN MaterialReported(a, "add_consumable_ui", name, "Keinen Drucker ausgewählt", FALSE)
       ELSE IF pid = None
       THEN MaterialReported(a, "add_consumable_ui", name, "Drucker nicht gefunden", FALSE)
       ELSE IF kleur = ""
       THEN MaterialReported(a, "add_consumable_ui", name, "Keine Farbe gewählt", FALSE)
       ELSE IF ParseFloat(mat[1]) = None \/ ParseFloat(mat[2]) = None
       THEN MaterialReported(a, "add_consumable_ui", name,
                             "Ungültige Preis- oder Reichweitenangabe", FALSE)
       ELSE IF kleur = "Cyan" /\ p = None
       THEN \* get_printer_db(pid)[3] on None: TypeError at line 334
            MaterialReported(a, "add_consumable_ui", name, "", TRUE)
       ELSE /\ outcome' = Outcome(a, "add_consumable_ui", "", FALSE)
            /\ IF kleur = "Cyan" /\ p[4] = 1 /\ yes
               THEN MaterialWritten(a, name, three, 3)
               ELSE MaterialWritten(a, name, one, 1)

\* delete_selected_consumable_ui with the line cid selected and the answer yes
DeleteConsumable(a, cid, yes) ==
    /\ cid \in tree_mat[a] \cup {NoSelection}
    /\ IF cid = NoSelection
       THEN Reported(a, "delete_selected_consumable_ui", "Kein Verbrauchsmaterial gewählt")
       ELSE IF ~yes
       THEN Reported(a, "delete_selected_consumable_ui", "Löschen?")
       ELSE /\ outcome' = Outcome(a, "delete_selected_consumable_ui", "", FALSE)
            /\ MaterialWritten(a, cb_printer_for_mat[a],
                               delete_consumable_db(consumables, cid), 0)

\* autofill_from_cyan with printer name chosen
AutofillFromCyan(a, name) ==
    LET pid == MapGet(printer_map[a], name)
        c == get_consumable_db(consumables, pid[1], "Cyan")
        one == add_consumable_db(consumables, next_cid, pid[1], "Magenta", c[1], c[2])
        two == add_consumable_db(one, next_cid + 1, pid[1], "Yellow", c[1], c[2])
    IN
    /\ name \in ComboChoices(a)
    /\ next_cid + 1 <= MaxConsId
    /\ IF name = ""
       THEN MaterialReported(a, "autofill_from_cyan", name, "Keinen Drucker gewählt", FALSE)
       ELSE IF pid = None
       THEN MaterialReported(a, "autofill_from_cyan", name, "Drucker nicht gefunden", FALSE)
       ELSE IF c = None
       THEN MaterialReported(a, "autofill_from_cyan", name,
                             "Keine Cyan-Angabe vorhanden", FALSE)
       ELSE /\ outcome' = Outcome(a, "autofill_from_cyan",
                    "Magenta und Yellow wurden übernommen (falls fehlend)", FALSE)
            /\ MaterialWritten(a, name, two, 2)

(***************************************************************************)
(* Spec: the instances of main() running on one database.db                *)
(***************************************************************************)
\* init_db on a fresh file, then App.__init__ of every instance
Init ==
    /\ printers = {}
    /\ consumables = {}
    /\ next_pid = 1
    /\ next_cid = 1
    /\ tree_printers = [a \in Apps |-> <<>>]
    /\ printer_map = [a \in Apps |-> {}]
    /\ listbox_compare = [a \in Apps |-> <<>>]
    /\ sel_idxs = [a \in Apps |-> {}]
    /\ cb_printer_for_mat = [a \in Apps |-> ""]
    /\ tree_mat = [a \in Apps |-> {}]
    /\ e_cov = [a \in Apps |-> <<"5", "5", "50">>]
    /\ tree_compare = [a \in Apps |-> <<>>]
    /\ last_compare_rows = [a \in Apps |-> <<>>]
    /\ outcome = Outcome(0, "init", "", FALSE)
    /\ profiles = {}
    /\ asked = ""
    /\ events = 0

\* One more handler runs in the session
Step == events < MaxEvents /\ events' = events + 1

Next ==
    \/ \E a \in Apps, model \in TypedModels, price \in TypedPrices, is_color \in {0, 1} :
          Step /\ AddPrinter(a, model, price, is_color)
    \/ \E a \in Apps, pid \in 0..MaxId, model \in TypedModels, price \in TypedPrices,
          is_color \in {0, 1} : Step /\ UpdatePrinter(a, pid, model, price, is_color)
    \/ \E a \in Apps, pid \in 0..MaxId, yes \in BOOLEAN :
          Step /\ DeletePrinter(a, pid, yes)
    \/ \E a \in Apps : Step /\ Refresh(a)
    \/ \E a \in Apps, name \in TypedModels, k \in 1..4, mat \in TypedMaterial,
          yes \in BOOLEAN : Step /\ AddConsumable(a, name, Channels[k], mat, yes)
    \/ \E a \in Apps, cid \in 0..MaxConsId, yes \in BOOLEAN :
          Step /\ DeleteConsumable(a, cid, yes)
    \/ \E a \in Apps, name \in TypedModels : Step /\ AutofillFromCyan(a, name)
    \/ \E a \in Apps, sel \in SUBSET (1..MaxId), e \in TypedEntries :
          Step /\ RunCompare(a, sel, e)

Spec == Init /\ [][Next]_vars

(***************************************************************************)
(* SpecCompare: run_compare on stored data drawn from bounded sets         *)
(***************************************************************************)
Euro(n) == <<n, 1>>
Black40per1000 == <<Euro(40), 1000>>
Black40per2000 == <<Euro(40), 2000>>
Col30per1000 == <<Euro(30), 1000>>
Col40per2000 == <<Euro(40), 2000>>
Col50per1000 == <<Euro(50), 1000>>

\* Printers as they can be stored: is_color and the records of Schwarz,
\* Cyan, Magenta, Yellow (None: no record).
PrinterKinds ==
    { <<0, Black40per1000, None, None, None>>,
      <<0, Black40per2000, Col30per1000, Col30per1000, Col50per1000>>,
      <<1, Black40per1000, None, None, None>>,
      <<1, Black40per2000, Col40per2000, None, None>>,
      <<1, Black40per2000, Col40per2000, Col40per2000, Col40per2000>>,
      <<1, Black40per1000, None, Col30per1000, Col50per1000>>,
      <<1, None, Col30per1000, None, None>> }

\* The third model is drawn from the kinds that store every record their
\* type uses
FullKinds ==
    {k \in PrinterKinds :
        /\ k[2] # None
        /\ k[1] = 1 => (k[3] # None /\ k[4] # None /\ k[5] # None)}

\* The ids the three models got: "B" was added first, then "C", then "A".
CompareId(m) == CASE m = "A" -> 3 [] m = "B" -> 1 [] m = "C" -> 2

InitCompare ==
    \E kind \in {k \in [SeqToSet(ModelNames) -> PrinterKinds] : k["C"] \in FullKinds},
       price \in [SeqToSet(ModelNames) -> PriceTexts] :
        LET map == {<<m, CompareId(m)>> : m \in SeqToSet(ModelNames)}
            recorded == {mk \in SeqToSet(ModelNames) \X (1..4) :
                            kind[mk[1]][mk[2] + 1] # None}
            cons == {<<4 * (CompareId(mk[1]) - 1) + mk[2], CompareId(mk[1]),
                       Channels[mk[2]], kind[mk[1]][mk[2] + 1][1],
                       kind[mk[1]][mk[2] + 1][2]>> : mk \in recorded}
        IN
        /\ printers = {<<CompareId(m), m, ParseFloat(price[m]), kind[m][1]>> :
                          m \in SeqToSet(ModelNames)}
        /\ consumables = cons
        /\ next_pid = 4
        /\ next_cid = 13
        /\ tree_printers = [a \in Apps |-> [i \in 1..3 |-> CompareId(ModelNames[i])]]
        /\ printer_map = [a \in Apps |-> map]
        /\ listbox_compare = [a \in Apps |-> ModelNames]
        /\ sel_idxs = [a \in Apps |-> {}]
        /\ cb_printer_for_mat = [a \in Apps |-> ModelNames[1]]
        /\ tree_mat = [a \in Apps |-> MaterialTree(cons, map, ModelNames[1])]
        /\ e_cov = [a \in Apps |-> <<"5", "5", "50">>]
        /\ tree_compare = [a \in Apps |-> <<>>]
        /\ last_compare_rows = [a \in Apps |-> <<>>]
        /\ outcome = Outcome(0, "init", "", FALSE)
        /\ profiles = {}
        /\ asked = ""
        /\ events = 0

\* The first comparison after start, on a non-empty selection
NextCompare ==
    /\ events = 0
    /\ events' = events + 1
    /\ \E sel \in (SUBSET (1..3)) \ {{}}, e \in Covs \X Covs \X Shares :
          RunCompare(1, sel, e)

SpecCompare == InitCompare /\ [][NextCompare]_vars

(***************************************************************************)
(* Properties of a finished comparison                                     *)
(***************************************************************************)
\* The last handler was run_compare and it got to the end: the rows below
\* are the rows it built from the tables, selection and entries of this state.
Compared == outcome.op = "run_compare" /\ outcome.msg = "" /\ ~outcome.raised

Rows == last_compare_rows[outcome.app]
CovSw == ParseFloat(e_cov[outcome.app][1])
CovColor == ParseFloat(e_cov[outcome.app][2])
ColorShare == ParseFloat(e_cov[outcome.app][3])
Chosen == sel_idxs[outcome.app]
ChosenModels == SelectedModels(listbox_compare[outcome.app], Chosen)

\* The cheapest row, the first one among equals
FirstCheapest(rows) ==
    CHOOSE b \in 1..Len(rows) :
        /\ \A j \in 1..Len(rows) : ~RLess(rows[j][3], rows[b][3])
        /\ \A j \in 1..Len(rows) : j < b => rows[j][3] # rows[b][3]

HasRecord(pid, kleur) == \E c \in consumables : c[2] = pid /\ c[3] = kleur
Record(pid, kleur) ==
    LET c == CHOOSE c \in consumables : c[2] = pid /\ c[3] = kleur
    IN  <<c[4], c[5]>>
IsColor(pid) == \E r \in printers : r[1] = pid /\ r[4] # 0
HasAnyColorRecord(pid) ==
    HasRecord(pid, "Cyan") \/ HasRecord(pid, "Magenta") \/ HasRecord(pid, "Yellow")

\* prem / saving rounded down, for positive rationals
FloorQuot(prem, saving) == (prem[1] * saving[2]) \div (prem[2] * saving[1])

\* C1: a row's break-even is a number exactly when the row is not the
\* baseline, both average costs are defined, the row is strictly dearer to
\* buy and strictly cheaper per page than the baseline; the number is then
\* floor((price - baseline_price) / (baseline_avg - avg)) + 1.  Every other
\* row, and the baseline row, has "-", and no row has the number 0.
C1_BreakEvenRule ==
    Compared =>
        LET rows == Rows
            b == FirstCheapest(rows)
        IN  \A i \in 1..Len(rows) :
                LET r == rows[i]
                    base == rows[b]
                    applies == /\ i # b
                               /\ r[6] # None
                               /\ base[6] # None
                               /\ RLess(base[3], r[3])
                               /\ RLess(r[6], base[6])
                IN  /\ r[7] # <<0>>
                    /\ IF applies
                       THEN r[7] = <<FloorQuot(RSub(r[3], base[3]),
                                               RSub(base[6], r[6])) + 1>>
                       ELSE r[7] = None

\* The spec's example: prices 50 and 150, averages 0.04 and 0.02, 5001 pages
C1_Witness ==
    /\ Compared
    /\ \E i, b \in 1..Len(Rows) :
          /\ b = FirstCheapest(Rows)
          /\ Rows[b][3] = <<50, 1>> /\ Rows[b][6] = <<1, 25>>
          /\ Rows[i][3] = <<150, 1>> /\ Rows[i][6] = <<1, 50>>
          /\ Rows[i][7] = <<5001>>
    /\ \E j \in 1..Len(Rows) :
          j # FirstCheapest(Rows) /\ Rows[j][6] # None /\ Rows[j][7] = None

\* A row with a numeric break-even: <<N, premium, saving per page>>
NumericRows ==
    {<<Rows[i][7][1], RSub(Rows[i][3], Rows[FirstCheapest(Rows)][3]),
       RSub(Rows[FirstCheapest(Rows)][6], Rows[i][6])>> :
        i \in {k \in 1..Len(Rows) : Rows[k][7] # None}}

\* C2 as stated: N is the first page count at which the cumulative savings
\* equal or exceed the premium: N * saving >= premium and
\* (N - 1) * saving < premium.
C2_FirstPageReachingPremium ==
    Compared =>
        \A t \in NumericRows :
            /\ RLeq(t[2], RMul(RInt(t[1]), t[3]))
            /\ RLess(RMul(RInt(t[1] - 1), t[3]), t[2])

\* C2 amended: N is the first page count at which the cumulative savings
\* strictly exceed the premium: N * saving > premium and
\* (N - 1) * saving <= premium.
C2_FirstPageExceedingPremium ==
    Compared =>
        \A t \in NumericRows :
            /\ RLess(t[2], RMul(RInt(t[1]), t[3]))
            /\ RLeq(RMul(RInt(t[1] - 1), t[3]), t[2])

\* One comparison with a premium that is an exact multiple of the saving and
\* one that is not
C2_Witness ==
    /\ Compared
    /\ \E t \in NumericRows : RMul(RInt(t[1] - 1), t[3]) = t[2]
    /\ \E t \in NumericRows : RLess(RMul(RInt(t[1] - 1), t[3]), t[2])

\* C3: the baseline is the cheapest row, the first one in selection order
\* among equally cheap ones; it is the only row treated as the baseline, and
\* every other row, an equally cheap one too, is compared against it.
C3_BaselineFirstCheapest ==
    Compared =>
        LET rows == Rows
            b == FirstCheapest(rows)
        IN  /\ Cardinality({i \in 1..Len(rows) : rows[i][1] = rows[b][1]}) = 1
            /\ rows[b][7] = None
            /\ \A i \in 1..Len(rows) : rows[i][7] = BreakEven(rows[i], rows[b])

\* Two rows tie for the lowest price with different averages, and a third
\* row gets a number against the first of them.
C3_Witness ==
    /\ Compared
    /\ \E i, j, k \in 1..Len(Rows) :
          /\ i < j
          /\ i = FirstCheapest(Rows)
          /\ Rows[i][3] = Rows[j][3]
          /\ Rows[i][6] # None /\ Rows[j][6] # None /\ Rows[i][6] # Rows[j][6]
          /\ Rows[k][7] # None
          /\ Rows[k][7] # BreakEven(Rows[k], Rows[j])

\* The k-th smallest selected index
NthChosen(k) == CHOOSE i \in Chosen : Cardinality({j \in Chosen : j <= i}) = k

\* C4: the rows are in selection order, one per selected printer: the row
\* ids are the ids of the selected listbox lines, top to bottom.
C4_SelectionOrder ==
    Compared =>
        /\ Len(Rows) = Cardinality(Chosen)
        /\ \A k \in 1..Len(Rows) :
              \E r \in printers :
                  /\ r[2] = listbox_compare[outcome.app][NthChosen(k)]
                  /\ Rows[k][1] = r[1]
                  /\ Rows[k][2] = r[2]

\* Three rows whose order is neither by price nor by id
C4_Witness ==
    /\ Compared
    /\ Len(Rows) = 3
    /\ RLess(Rows[2][3], Rows[1][3])
    /\ Rows[1][1] > Rows[2][1]
    /\ \E i \in 1..3 : Rows[i][7] # None

\* The selected rows whose printer has no Schwarz record
RowsWithoutBlack == {i \in 1..Len(Rows) : ~HasRecord(Rows[i][1], "Schwarz")}

\* Black records the printer of a row could be given
SupposedBlack == {Black40per1000, Black40per2000}

\* The rows of the same comparison, had printer pid the Schwarz record black
RowsSupposing(pid, black) ==
    CompareRows(printers,
                consumables \cup {<<next_cid, pid, "Schwarz", black[1], black[2]>>},
                ChosenModels, CovSw, CovColor, ColorShare)

\* What C5 says of the row m of a printer without Schwarz and of the costs
\* of the other rows
C5_RowsAndCosts(m) ==
    /\ Len(Rows) = Cardinality(Chosen)
    /\ Rows[m][4] = None /\ Rows[m][5] = None /\ Rows[m][6] = None
    /\ Rows[m][7] = None
    /\ \A black \in SupposedBlack :
          LET other == RowsSupposing(Rows[m][1], black)
          IN  \A i \in 1..Len(Rows) :
                 i # m => /\ Rows[i][4] = other[i][4]
                          /\ Rows[i][5] = other[i][5]
                          /\ Rows[i][6] = other[i][6]

\* C5 as stated: with a printer without Schwarz in the selection there is a
\* row for every selected printer, that printer's row has no cost and "-",
\* and every other row has the costs and the break-even it would have if
\* the printer had a Schwarz record, whichever printer it is.
C5_OthersUnaffected ==
    Compared =>
        \A m \in RowsWithoutBlack :
            /\ C5_RowsAndCosts(m)
            /\ \A black \in SupposedBlack :
                  \A i \in 1..Len(Rows) :
                      i # m => Rows[i][7] = RowsSupposing(Rows[m][1], black)[i][7]

\* C5 amended: the same, but the break-even of the other rows is the one
\* they would have only when the printer without Schwarz is not the
\* baseline; when it is the baseline, every row has "-".
C5_OthersUnaffectedUnlessBaseline ==
    Compared =>
        \A m \in RowsWithoutBlack :
            /\ C5_RowsAndCosts(m)
            /\ IF m = FirstCheapest(Rows)
               THEN \A i \in 1..Len(Rows) : Rows[i][7] = None
               ELSE \A black \in SupposedBlack :
                       \A i \in 1..Len(Rows) :
                           i # m => Rows[i][7] =
                                       RowsSupposing(Rows[m][1], black)[i][7]

\* A printer without Schwarz that is not the baseline, beside a row with a
\* numeric break-even
C5_Witness ==
    /\ Compared
    /\ \E m \in RowsWithoutBlack :
          /\ m # FirstCheapest(Rows)
          /\ \E i \in 1..Len(Rows) : Rows[i][7] # None

\* The rows of colour printers with Schwarz but no Cyan, Magenta or Yellow
RowsWithoutColorRecords ==
    {i \in 1..Len(Rows) : /\ IsColor(Rows[i][1])
                          /\ HasRecord(Rows[i][1], "Schwarz")
                          /\ ~HasAnyColorRecord(Rows[i][1])}

\* C6: a colour printer with Schwarz but no Cyan, Magenta or Yellow still
\* gets its monochrome cost, (price / yield) * (coverage / 5), and no colour
\* cost; its row has no colour cost, no average and "-".
C6_MonochromeOnly ==
    Compared =>
        \A i \in RowsWithoutColorRecords :
            LET black == Record(Rows[i][1], "Schwarz")
                c == compute_costs_for_printer(printers, consumables, Rows[i][1],
                                               CovSw, CovColor)
            IN  /\ c[1] = RMul(RDiv(black[1], RInt(Max(1, black[2]))),
                               RDiv(CovSw, RInt(5)))
                /\ c[2] = None
                /\ Rows[i][4] = c[1]
                /\ Rows[i][5] = None
                /\ Rows[i][6] = None
                /\ Rows[i][7] = None

\* Such a printer as the cheapest of three, with a positive monochrome cost
C6_Witness ==
    /\ Compared
    /\ Len(Rows) = 3
    /\ \E i \in RowsWithoutColorRecords :
          /\ i = FirstCheapest(Rows)
          /\ RLess(RInt(0), Rows[i][4])
    /\ \E i \in RowsWithoutColorRecords : i # FirstCheapest(Rows)

\* The rows of colour printers with Schwarz and at least one colour record
ColorRows ==
    {i \in 1..Len(Rows) : /\ IsColor(Rows[i][1])
                          /\ HasRecord(Rows[i][1], "Schwarz")
                          /\ HasAnyColorRecord(Rows[i][1])}

\* The record of the first of Cyan, Magenta, Yellow that printer pid has
FirstColorRecord(pid) ==
    Record(pid, CHOOSE k \in {"Cyan", "Magenta", "Yellow"} :
                   /\ HasRecord(pid, k)
                   /\ k = "Magenta" => ~HasRecord(pid, "Cyan")
                   /\ k = "Yellow" => ~HasRecord(pid, "Cyan") /\ ~HasRecord(pid, "Magenta"))

\* The record printer pid is costed with on a colour channel
EffectiveRecord(pid, kleur) ==
    IF HasRecord(pid, kleur) THEN Record(pid, kleur) ELSE FirstColorRecord(pid)

\* The consumables table with explicit copies of that first record put in
\* for the colour channels printer pid has no record of
WithExplicitCopies(pid) ==
    consumables \cup
        {<<next_cid + k, pid, Channels[k], FirstColorRecord(pid)[1],
           FirstColorRecord(pid)[2]>> :
            k \in {j \in 2..4 : ~HasRecord(pid, Channels[j])}}

\* C8: a colour printer with at least one of Cyan, Magenta, Yellow is costed,
\* on each of these channels it has no record of, with the record of the
\* first channel in Cyan, Magenta, Yellow order that it has: its colour cost
\* is that of the printer with explicit copies of that record.
C8_MissingChannelsFromFirst ==
    Compared =>
        \A i \in ColorRows :
            /\ Rows[i][5] # None
            /\ Rows[i][5] =
                  compute_costs_for_printer(printers, WithExplicitCopies(Rows[i][1]),
                                            Rows[i][1], CovSw, CovColor)[2]

\* A printer with only Cyan, and one without Cyan whose Magenta and Yellow differ
C8_Witness ==
    /\ Compared
    /\ \E i \in ColorRows :
          /\ HasRecord(Rows[i][1], "Cyan")
          /\ ~HasRecord(Rows[i][1], "Magenta")
          /\ ~HasRecord(Rows[i][1], "Yellow")
    /\ \E i \in ColorRows :
          /\ ~HasRecord(Rows[i][1], "Cyan")
          /\ HasRecord(Rows[i][1], "Magenta")
          /\ HasRecord(Rows[i][1], "Yellow")
          /\ Record(Rows[i][1], "Magenta") # Record(Rows[i][1], "Yellow")

\* (price / yield) * (coverage / 5) of a record with a positive yield
PerPage(rec, cov) == RMul(RDiv(rec[1], RInt(rec[2])), RDiv(cov, RInt(5)))

PositiveYields(pid) ==
    /\ Record(pid, "Schwarz")[2] >= 1
    /\ \A k \in {"Cyan", "Magenta", "Yellow"} : EffectiveRecord(pid, k)[2] >= 1

\* C9: the colour cost of a colour printer is the Schwarz cost at the colour
\* coverage plus the Cyan, Magenta and Yellow costs at the colour coverage;
\* it is the same for every monochrome coverage, and with the same price and
\* yield on all four channels at 5% it is four times the one-channel cost.
C9_ColorCostFormula ==
    Compared =>
        \A i \in {j \in ColorRows : PositiveYields(Rows[j][1])} :
            LET pid == Rows[i][1]
                black == Record(pid, "Schwarz")
            IN  /\ Rows[i][5] =
                      RAdd(RAdd(PerPage(black, CovColor),
                                PerPage(EffectiveRecord(pid, "Cyan"), CovColor)),
                           RAdd(PerPage(EffectiveRecord(pid, "Magenta"), CovColor),
                                PerPage(EffectiveRecord(pid, "Yellow"), CovColor)))
                /\ \A cov \in Covs :
                      compute_costs_for_printer(printers, consumables, pid,
                                                ParseFloat(cov), CovColor)[2]
                          = Rows[i][5]
                /\ (/\ CovColor = RInt(5)
                    /\ \A k \in {"Cyan", "Magenta", "Yellow"} :
                          HasRecord(pid, k) /\ Record(pid, k) = black)
                   => Rows[i][5] = RMul(RInt(4), RDiv(black[1], RInt(black[2])))

\* A printer with four equal records compared at 5% colour and 10% monochrome
\* coverage, beside one whose records differ
C9_Witness ==
    /\ Compared
    /\ CovColor = RInt(5) /\ CovSw = RInt(10)
    /\ \E i \in ColorRows :
          \A k \in {"Cyan", "Magenta", "Yellow"} :
              HasRecord(Rows[i][1], k)
              /\ Record(Rows[i][1], k) = Record(Rows[i][1], "Schwarz")
    /\ \E i \in ColorRows :
          EffectiveRecord(Rows[i][1], "Yellow") # Record(Rows[i][1], "Schwarz")

\* The rows of printers that are not colour printers and have Schwarz
MonoRows ==
    {i \in 1..Len(Rows) : ~IsColor(Rows[i][1]) /\ HasRecord(Rows[i][1], "Schwarz")}

\* C10: a printer that is not a colour printer and has Schwarz gets a colour
\* cost equal to its monochrome cost for every pair of coverages, whatever
\* colour records it has, and its average cost is its monochrome cost.
C10_MonoColorEqualsMono ==
    Compared =>
        \A i \in MonoRows :
            /\ Rows[i][4] # None
            /\ Rows[i][5] = Rows[i][4]
            /\ Rows[i][6] = Rows[i][4]
            /\ \A sw \in Covs, col \in Covs :
                  LET c == compute_costs_for_printer(printers, consumables,
                               Rows[i][1], ParseFloat(sw), ParseFloat(col))
                  IN  c[1] # None /\ c[2] = c[1]

\* Such a printer with colour records, compared at different coverages and
\* a colour share of 50%
C10_Witness ==
    /\ Compared
    /\ CovSw # CovColor
    /\ ColorShare = RInt(50)
    /\ \E i \in MonoRows : HasAnyColorRecord(Rows[i][1])

(***************************************************************************)
(* Properties of the session                                               *)
(***************************************************************************)
\* run_compare was asked to compare zero printers: nothing is selected, or
\* no selected listbox line names a stored printer.
ZeroPrinters ==
    \/ Chosen = {}
    \/ \A i \in Chosen :
          ~\E r \in printers : r[2] = listbox_compare[outcome.app][i]

\* C7: a comparison asked for with zero printers is reported and computes
\* nothing: run_compare raises no exception, shows a dialog, and leaves the
\* comparison table and the remembered rows as they were.
C7_ZeroPrintersReported ==
    [][(outcome'.op = "run_compare" /\ ZeroPrinters')
          => /\ ~outcome'.raised
             /\ outcome'.msg # ""
             /\ tree_compare' = tree_compare
             /\ last_compare_rows' = last_compare_rows]_vars

(***************************************************************************)
(* SpecMaterial: the material tab on two stored printers                   *)
(***************************************************************************)
\* Printer "A" (id 1, colour or not) and the colour printer "B" (id 2) are
\* stored, no consumable is, and every instance has just started.
InitMaterial ==
    \E is_color \in {0, 1} :
        LET P == {<<1, "A", RInt(50), is_color>>, <<2, "B", RInt(150), 1>>}
            map == {<<"A", 1>>, <<"B", 2>>}
        IN
        /\ printers = P
        /\ consumables = {}
        /\ next_pid = 3
        /\ next_cid = 1
        /\ tree_printers = [a \in Apps |-> <<1, 2>>]
        /\ printer_map = [a \in Apps |-> map]
        /\ listbox_compare = [a \in Apps |-> <<"A", "B">>]
        /\ sel_idxs = [a \in Apps |-> {}]
        /\ cb_printer_for_mat = [a \in Apps |-> "A"]
        /\ tree_mat = [a \in Apps |-> {}]
        /\ e_cov = [a \in Apps |-> <<"5", "5", "50">>]
        /\ tree_compare = [a \in Apps |-> <<>>]
        /\ last_compare_rows = [a \in Apps |-> <<>>]
        /\ outcome = Outcome(0, "init", "", FALSE)
        /\ profiles = {}
        /\ asked = ""
        /\ events = 0

MaxWrites == 3                           \* handlers run on the material tab

\* One more handler of the material tab runs
MaterialStep == events < MaxWrites /\ events' = events + 1

\* The handlers of the material tab, run in the first instance
NextMaterial ==
    \/ \E name \in TypedModels, k \in 1..4, mat \in TypedMaterial, yes \in BOOLEAN :
          MaterialStep /\ AddConsumable(1, name, Channels[k], mat, yes)
    \/ \E cid \in 0..MaxConsId, yes \in BOOLEAN : MaterialStep /\ DeleteConsumable(1, cid, yes)
    \/ \E name \in TypedModels : MaterialStep /\ AutofillFromCyan(1, name)

SpecMaterial == InitMaterial /\ [][NextMaterial]_vars

(***************************************************************************)
(* Properties of the consumables table                                     *)
(***************************************************************************)
\* Two rows of the same (printer_id, kleur)
SameSlot(c, d) == c[2] = d[2] /\ c[3] = d[3]

OneRecordPerChannel(C) == \A c, d \in C : SameSlot(c, d) => c = d

\* The prices and yields an insertion can carry
InsertedValues ==
    {<<ParseFloat(mat[1]), ParseInt(mat[2])>> :
        mat \in {m \in TypedMaterial : ParseFloat(m[1]) # None /\ ParseFloat(m[2]) # None}}

\* add_consumable_db on the table C, for every printer id, channel and
\* values: the slot then reads the new values, the table still has one row
\* per slot, and the rows of every other slot are the rows C had.
InsertReplaces(C) ==
    \A pid \in 1..MaxId, k \in 1..4, v \in InsertedValues :
        LET after == add_consumable_db(C, next_cid, pid, Channels[k], v[1], v[2])
            other(c) == ~(c[2] = pid /\ c[3] = Channels[k])
        IN  /\ get_consumable_db(after, pid, Channels[k]) = v
            /\ OneRecordPerChannel(after)
            /\ {c \in after : other(c)} = {c \in C : other(c)}

RecordIds == {c[1] : c \in consumables}

\* C11: whatever insertions, deletions and Cyan autofills were made, the
\* table holds at most one record per (printer, channel), and an insertion
\* into it for any (printer, channel) leaves that slot with exactly the new
\* price and yield and every other slot's record untouched.
C11_OneRecordPerChannel ==
    /\ OneRecordPerChannel(consumables)
    /\ InsertReplaces(consumables)

\* Three insertions were made, the third into the slot of the second (row 2
\* is gone without a deletion), while the first row is still stored.
C11_Witness ==
    /\ events = 3
    /\ next_cid = 4
    /\ outcome.op = "add_consumable_ui" /\ outcome.msg = "" /\ ~outcome.raised
    /\ RecordIds = {1, 3}
    /\ \E c, d \in consumables : c[1] = 1 /\ d[1] = 3 /\ ~SameSlot(c, d)

\* Every stored consumable belongs to a stored printer
ConsumablesReferToPrinters(P, C) == \A c \in C : \E r \in P : r[1] = c[2]

PrinterIds(P) == {r[1] : r \in P}

\* C12: a completed delete_selected_printer removes the printer and exactly
\* the consumables of its id, and after every handler each stored consumable
\* refers to a stored printer.
C12_DeleteCascades ==
    [][/\ (outcome'.op = "delete_selected_printer" /\ outcome'.msg = "")
             => LET gone == PrinterIds(printers) \ PrinterIds(printers')
                IN  /\ printers' = {r \in printers : r[1] \notin gone}
                    /\ consumables' = {c \in consumables : c[2] \notin gone}
       /\ ConsumablesReferToPrinters(printers', consumables')]_vars

(***************************************************************************)
(* Profiles: save_profile_db, load_profiles_db and their two handlers      *)
(***************************************************************************)
ProfileNames == <<"p", "q">>             \* profile names, in ORDER BY name order
TypedNames == {"", "p", "q"}             \* answers to askstring
ProfileEntries ==                        \* texts typed into the three entries
    {<<"5", "5", "50">>, <<"10", "2,5", "100">>, <<"5", "x", "50">>,
     <<"nan", "5", "50">>}
MaxSaves == 4                            \* handlers run on the profile buttons

\* str(x) of a float read back from a REAL column
FloatStr(x) ==
    CASE x = <<5, 1>> -> "5.0"
      [] x = <<10, 1>> -> "10.0"
      [] x = <<5, 2>> -> "2.5"
      [] x = <<50, 1>> -> "50.0"
      [] x = <<100, 1>> -> "100.0"
      [] OTHER -> "?"

\* The id AUTOINCREMENT gives the next row of the table T.  Rows of T are
\* only removed by the REPLACE that inserts a newer one, so the largest id
\* ever used is the largest id stored.
NextProfileId(T) ==
    IF T = {} THEN 1 ELSE 1 + (CHOOSE n \in {r[1] : r \in T} : \A r \in T : r[1] <= n)

\* Mutant of save_profile_db: a plain INSERT that keeps the old row
save_profile_keeping(T, name, cov_sw, cov_color, color_share) ==
    T \cup {<<NextProfileId(T), name, cov_sw, cov_color, color_share>>}

\* INSERT OR REPLACE INTO profiles ...: the table T after the insert; the
\* row of the same name (UNIQUE) is replaced.
save_profile_db(T, name, cov_sw, cov_color, color_share) ==
    {r \in T : r[2] # name}
        \cup {<<NextProfileId(T), name, cov_sw, cov_color, color_share>>}

\* SELECT id,name,cov_sw,cov_color,color_share FROM profiles ORDER BY name
load_profiles_db(T) ==
    LET stored(n) == \E r \in T : r[2] = n
        names == SelectSeq(ProfileNames, stored)
    IN  [i \in 1..Len(names) |-> CHOOSE r \in T : r[2] = names[i]]

\* save_profile_ui: the entries hold the texts e and the user answers name
SaveProfile(a, name, e) ==
    LET cov_sw == to_float(e[1], None)
        cov_color == to_float(e[2], None)
        color_share == to_float(e[3], None)
    IN  /\ e_cov' = [e_cov EXCEPT ![a] = e]
        /\ asked' = name
        /\ UNCHANGED <<dbvars, tree_compare, last_compare_rows>>
        /\ UiUnchanged
        /\ IF name = ""
           THEN /\ outcome' = Outcome(a, "save_profile_ui", "", FALSE)
                /\ UNCHANGED profiles
           ELSE IF cov_sw = None \/ cov_color = None \/ color_share = None
           THEN /\ outcome' = Outcome(a, "save_profile_ui", "Ungültige Werte", FALSE)
                /\ UNCHANGED profiles
           ELSE IF NaN \in {cov_sw, cov_color, color_share}
           THEN \* NaN is bound as NULL, the columns are NOT NULL:
                \* sqlite3.IntegrityError, not caught
                /\ outcome' = Outcome(a, "save_profile_ui", "", TRUE)
                /\ UNCHANGED profiles
           ELSE /\ outcome' = Outcome(a, "save_profile_ui", "Profil gespeichert", FALSE)
                /\ profiles' = save_profile_db(profiles, name, cov_sw, cov_color,
                                               color_share)

\* load_profile_ui with the answer sel to the question for a profile name
LoadProfile(a, sel) ==
    LET rows == load_profiles_db(profiles)
        found == {i \in 1..Len(rows) : rows[i][2] = sel}
        p == rows[CHOOSE i \in found : \A j \in found : i <= j]
    IN  /\ UNCHANGED <<dbvars, profiles, tree_compare, last_compare_rows>>
        /\ UiUnchanged
        /\ IF rows = <<>>
           THEN /\ outcome' = Outcome(a, "load_profile_ui", "Keine Profile vorhanden", FALSE)
                /\ UNCHANGED <<asked, e_cov>>
           ELSE /\ asked' = sel
                /\ IF sel = ""
                   THEN /\ outcome' = Outcome(a, "load_profile_ui", "", FALSE)
                        /\ UNCHANGED e_cov
                   ELSE IF found # {}
                   THEN /\ outcome' = Outcome(a, "load_profile_ui", "", FALSE)
                        /\ e_cov' = [e_cov EXCEPT ![a] =
                               <<FloatStr(p[3]), FloatStr(p[4]), FloatStr(p[5])>>]
                   ELSE /\ outcome' = Outcome(a, "load_profile_ui",
                                              "Profil nicht gefunden", FALSE)
                        /\ UNCHANGED e_cov

\* One more handler of the profile buttons runs
ProfileStep == events < MaxSaves /\ events' = events + 1

\* The profile buttons of every instance, on a fresh database.db.  The
\* entries hold what the user types or what the last load left in them.
NextProfiles ==
    \/ \E a \in Apps, name \in TypedNames :
          \E e \in ProfileEntries \cup {e_cov[a]} :
              ProfileStep /\ SaveProfile(a, name, e)
    \/ \E a \in Apps, sel \in TypedNames : ProfileStep /\ LoadProfile(a, sel)

SpecProfiles == Init /\ [][NextProfiles]_vars

(***************************************************************************)
(* Properties of the profiles table                                        *)
(***************************************************************************)
OneProfilePerName(T) == \A p, q \in T : p[2] = q[2] => p = q

\* The value triples load_profiles_db lists under name in the table T
ValuesNamed(T, name) ==
    LET rows == load_profiles_db(T)
    IN  {<<rows[i][3], rows[i][4], rows[i][5]>> :
            i \in {j \in 1..Len(rows) : rows[j][2] = name}}

\* The numbers the three entries of instance a hold
EntryValues(e) == <<ParseFloat(e[1]), ParseFloat(e[2]), ParseFloat(e[3])>>

\* C13: the table has one profile per name.  A save that completes leaves
\* under its name exactly the three values saved and every other profile as
\* it was; nothing else changes the table, so a name always holds the
\* values of its most recent save.  Loading a stored name puts into the
\* entries texts that read back as the three values stored under it.
C13_ProfileUpsert ==
    [][LET a == outcome'.app
           saved == /\ outcome'.op = "save_profile_ui"
                    /\ outcome'.msg = "Profil gespeichert"
           loaded == /\ outcome'.op = "load_profile_ui"
                     /\ outcome'.msg = ""
                     /\ asked' # ""
       IN  /\ OneProfilePerName(profiles')
           /\ Len(load_profiles_db(profiles')) = Cardinality({p[2] : p \in profiles'})
           /\ saved => /\ ValuesNamed(profiles', asked') = {EntryValues(e_cov'[a])}
                       /\ {p \in profiles' : p[2] # asked'}
                             = {p \in profiles : p[2] # asked'}
           /\ ~saved => profiles' = profiles
           /\ loaded => ValuesNamed(profiles, asked') = {EntryValues(e_cov'[a])}]_vars

\* Three saves completed, the third under the name of the second (whose row
\* is gone) with other values than the first profile has, and the profile
\* saved last has then been loaded into the entries of an instance.
C13_Witness ==
    /\ events = 4
    /\ {p[1] : p \in profiles} = {1, 3}
    /\ outcome.op = "load_profile_ui" /\ outcome.msg = "" /\ asked # ""
    /\ \E p, q \in profiles :
          /\ p[1] = 1 /\ q[1] = 3
          /\ q[2] = asked
          /\ <<p[3], p[4], p[5]>> # <<q[3], q[4], q[5]>>
          /\ EntryValues(e_cov[outcome.app]) = <<q[3], q[4], q[5]>>
          /\ e_cov[outcome.app][2] = "2.5"

(***************************************************************************)
(* SpecYield: records of any integer yield are stored, then compared       *)
(***************************************************************************)
YieldTexts == {"-5", "0", "1000"}        \* texts typed into the yield entry
YieldMaterial == {<<"40", y>> : y \in YieldTexts}
YieldEntries == {<<"5", "10", "50">>, <<"10", "5", "100">>}

\* On the two stored printers, the first instance stores records of
\* printer "A" and compares the printers.
NextYield ==
    \/ \E k \in 1..4, mat \in YieldMaterial, yes \in BOOLEAN :
          MaterialStep /\ AddConsumable(1, "A", Channels[k], mat, yes)
    \/ \E sel \in (SUBSET (1..2)) \ {{}}, e \in YieldEntries :
          MaterialStep /\ RunCompare(1, sel, e)

SpecYield == InitMaterial /\ [][NextYield]_vars

\* A record as it is costed: the yield raised to at least 1
Coerced(rec) == <<rec[1], Max(1, rec[2])>>

\* The table with every yield below 1 stored as 1 instead
YieldOne(C) == {<<c[1], c[2], c[3], c[4], IF c[5] <= 0 THEN 1 ELSE c[5]>> : c \in C}

\* C14: whatever integer yields are stored, every cost shown is computed
\* with max(1, yield) as divisor, for Schwarz and for each colour channel,
\* a substituted one included; so no division is by zero, and the whole
\* result is the one the records would give with each yield <= 0 stored as 1.
C14_YieldAtLeastOne ==
    Compared =>
        /\ \A i \in 1..Len(Rows) :
              LET pid == Rows[i][1]
                  black == Coerced(Record(pid, "Schwarz"))
              IN  /\ HasRecord(pid, "Schwarz") =>
                        Rows[i][4] = PerPage(black, CovSw)
                  /\ i \in ColorRows =>
                        Rows[i][5] =
                           RAdd(RAdd(PerPage(black, CovColor),
                                     PerPage(Coerced(EffectiveRecord(pid, "Cyan")), CovColor)),
                                RAdd(PerPage(Coerced(EffectiveRecord(pid, "Magenta")), CovColor),
                                     PerPage(Coerced(EffectiveRecord(pid, "Yellow")), CovColor)))
        /\ Rows = CompareRows(printers, YieldOne(consumables), ChosenModels,
                              CovSw, CovColor, ColorShare)

\* A colour printer compared with a Schwarz record of yield 0, a Cyan record
\* of negative yield and no Magenta record, so that Cyan's is substituted
C14_Witness ==
    /\ Compared
    /\ \E i \in ColorRows :
          /\ Record(Rows[i][1], "Schwarz")[2] = 0
          /\ HasRecord(Rows[i][1], "Cyan")
          /\ Record(Rows[i][1], "Cyan")[2] < 0
          /\ ~HasRecord(Rows[i][1], "Magenta")
          /\ Rows[i][5] # None

(***************************************************************************)
(* Properties of autofill_from_cyan                                        *)
(***************************************************************************)
\* C15: autofill_from_cyan changes no record when the chosen printer has no
\* Cyan record; otherwise a Magenta or Yellow record the printer already has
\* keeps its price and yield, a missing one is created with Cyan's price and
\* yield, and every other record keeps its price and yield.
C15_AutofillOnlyMissing ==
    [][outcome'.op = "autofill_from_cyan" =>
          LET a == outcome'.app
              pid == MapGet(printer_map[a], cb_printer_for_mat'[a])
          IN  IF pid = None
              THEN consumables' = consumables
              ELSE IF get_consumable_db(consumables, pid[1], "Cyan") = None
              THEN consumables' = consumables
              ELSE \A pr \in 1..MaxId, k \in 1..4 :
                      LET old == get_consumable_db(consumables, pr, Channels[k])
                          new == get_consumable_db(consumables', pr, Channels[k])
                      IN  IF /\ pr = pid[1]
                             /\ Channels[k] \in {"Magenta", "Yellow"}
                             /\ old = None
                          THEN new = get_consumable_db(consumables, pid[1], "Cyan")
                          ELSE new = old]_vars

====
